---- MODULE Spec2Model ----
(***************************************************************************)
(* A model of two components of the purplship fragment:                    *)
(*                                                                         *)
(*   - the Dicom carrier connection settings                               *)
(*     (extensions/dicom/purplship/providers/dicom/utils.py), and          *)
(*   - the Order extension of the GraphQL API                              *)
(*     (insiders/server/orders/.../graph/extension/orders/__init__.py).    *)
(*                                                                         *)
(* Representation of Python values.                                        *)
(*   str    a sequence of Unicode code points, <<97, 58>> is "a:"          *)
(*   bytes  a sequence of integers in 0..255                               *)
(*   None   the value None below, which is no str                          *)
(*   kwargs a function whose DOMAIN is the set of keywords that were given *)
(*                                                                         *)
(* The two components share no state.  SettingsSpec runs the settings      *)
(* object, OrdersSpec runs the resolvers; each leaves the variables of the *)
(* other component at their initial values.                                *)
(***************************************************************************)
EXTENDS Integers, Sequences, FiniteSets, TLC

VARIABLES
    instances,      \* the Settings objects constructed so far (at most one)
    construct,      \* the last constructor call: keywords given and outcome
    mutated,        \* history: an attribute of the instance has been assigned
    result,         \* the last value a request read from a property
    store,          \* the Order rows of the data store
    access_log,     \* the contexts Order.access_by was invoked with, in order
    response        \* outcome of the last resolver call

settingsVars == <<instances, construct, mutated, result>>
ordersVars == <<store, access_log, response>>
vars == <<instances, construct, mutated, result, store, access_log, response>>

(***************************************************************************)
(* Bounds of the model.                                                    *)
(***************************************************************************)
\* longest username and longest password drawn from the alphabets below
MaxLen == 1
\* number of distinct order ids the store may hold
MaxOrders == 3
\* number of data lookups (Order.access_by calls) followed
MaxCalls == 2

(***************************************************************************)
(* Python str values used as inputs.                                       *)
(***************************************************************************)
\* Python's None, as the value of an Optional[str] attribute: no str holds a
\* negative code point.
None == <<-1>>

\* "e-acute" (U+00E9, 2 bytes in UTF-8); "alice" below brings 1-byte characters
UsernameChars == {233}
\* the euro sign (U+20AC, 3 bytes) and U+1F600 (4 bytes)
PasswordChars == {8364, 128512}

StringsUpTo(chars, n) == UNION {[1..k -> chars] : k \in 0..n}

\* "alice"
Alice == <<97, 108, 105, 99, 101>>
\* "secret"
Secret == <<115, 101, 99, 114, 101, 116>>

Usernames == StringsUpTo(UsernameChars, MaxLen) \cup {Alice}
Passwords == StringsUpTo(PasswordChars, MaxLen) \cup {Secret}
\* the value a call gives for billing_account or id when it gives one: "b"
OptionalStrings == {<<98>>}

\* the requests that share the settings instance
Requests == {"r1", "r2"}

(***************************************************************************)
(* str.encode("utf-8"), base64.b64encode and bytes.decode("ascii").        *)
(***************************************************************************)
\* the UTF-8 bytes of one code point
encode_utf8_char(cp) ==
    IF cp < 128 THEN <<cp>>
    ELSE IF cp < 2048 THEN <<192 + (cp \div 64), 128 + (cp % 64)>>
    ELSE IF cp < 65536 THEN
        <<224 + (cp \div 4096), 128 + ((cp \div 64) % 64), 128 + (cp % 64)>>
    ELSE
        <<240 + (cp \div 262144), 128 + ((cp \div 4096) % 64),
          128 + ((cp \div 64) % 64), 128 + (cp % 64)>>

RECURSIVE encode_utf8(_)
encode_utf8(s) ==
    IF s = <<>> THEN <<>>
    ELSE encode_utf8_char(Head(s)) \o encode_utf8(Tail(s))

\* The Base64 alphabet of RFC 4648, table 1, as ASCII codes: A-Z a-z 0-9 + /
B64Alphabet ==
    [i \in 1..64 |->
        IF i <= 26 THEN 64 + i
        ELSE IF i <= 52 THEN 96 + (i - 26)
        ELSE IF i <= 62 THEN 47 + (i - 52)
        ELSE IF i = 63 THEN 43
        ELSE 47]
\* "="
B64Pad == 61

\* the four output characters of one input group of one, two or three bytes
b64encode_group(g) ==
    LET b1 == g[1]
        b2 == IF Len(g) >= 2 THEN g[2] ELSE 0
        b3 == IF Len(g) >= 3 THEN g[3] ELSE 0
    IN  << B64Alphabet[(b1 \div 4) + 1],
           B64Alphabet[((b1 % 4) * 16 + (b2 \div 16)) + 1],
           IF Len(g) >= 2 THEN B64Alphabet[((b2 % 16) * 4 + (b3 \div 64)) + 1]
                          ELSE B64Pad,
           IF Len(g) >= 3 THEN B64Alphabet[(b3 % 64) + 1] ELSE B64Pad >>

b64encode_unpadded_group(g) == SelectSeq(b64encode_group(g), LAMBDA c : c # B64Pad)

RECURSIVE b64encode_unpadded(_)
b64encode_unpadded(bs) ==
    IF bs = <<>> THEN <<>>
    ELSE IF Len(bs) <= 3 THEN b64encode_unpadded_group(bs)
    ELSE b64encode_group(SubSeq(bs, 1, 3)) \o b64encode_unpadded(SubSeq(bs, 4, Len(bs)))

RECURSIVE b64encode(_)
b64encode(bs) ==
    IF bs = <<>> THEN <<>>
    ELSE IF Len(bs) <= 3 THEN b64encode_group(bs)
    ELSE b64encode_group(SubSeq(bs, 1, 3)) \o b64encode(SubSeq(bs, 4, Len(bs)))

\* what a byte outside ASCII would raise
UnicodeDecodeError == -1
decode_ascii(bs) ==
    [i \in 1..Len(bs) |-> IF bs[i] < 128 THEN bs[i] ELSE UnicodeDecodeError]

(***************************************************************************)
(* class Settings(BaseSettings)                                            *)
(***************************************************************************)
FieldNames == {"username", "password", "billing_account", "id", "test"}

\* the fields declared without a default
RequiredFieldsAndBillingAccount == {"username", "password", "billing_account"}
RequiredFields == {"username", "password"}

\* the defaults of the fields declared with one
Defaults == [billing_account |-> None, id |-> None]
\* the default of the test flag, which the base settings type declares
BaseDefaults == [test |-> FALSE]

\* "dicom"
carrier_name(self) == <<100, 105, 99, 111, 109>>

\* "https://ct.soa-gw.canadapost.ca"
SandboxUrl ==
    <<104, 116, 116, 112, 115, 58, 47, 47, 99, 116, 46, 115, 111, 97, 45,
      103, 119, 46, 99, 97, 110, 97, 100, 97, 112, 111, 115, 116, 46, 99, 97>>
\* "https://soa-gw.canadapost.ca"
ProductionUrl ==
    <<104, 116, 116, 112, 115, 58, 47, 47, 115, 111, 97, 45,
      103, 119, 46, 99, 97, 110, 97, 100, 97, 112, 111, 115, 116, 46, 99, 97>>

server_url_swapped(self) == IF self.test THEN ProductionUrl ELSE SandboxUrl
server_url(self) == IF self.test THEN SandboxUrl ELSE ProductionUrl

\* "%s:%s" % (username, password)
format_pair(username, password) == username \o <<58>> \o password

authorization_unpadded(self) ==
    LET pair == format_pair(self.username, self.password)
    IN  decode_ascii(b64encode_unpadded(encode_utf8(pair)))
authorization(self) ==
    LET pair == format_pair(self.username, self.password)
    IN  decode_ascii(b64encode(encode_utf8(pair)))

\* the keyword arguments of one constructor call: `given` are the keywords
\* present
Kwargs(given, u, p, b, i, t) ==
    [n \in given |->
        CASE n = "username" -> u
          [] n = "password" -> p
          [] n = "billing_account" -> b
          [] n = "id" -> i
          [] n = "test" -> t]

Arg(kwargs, n) ==
    IF n \in DOMAIN kwargs THEN kwargs[n]
    ELSE IF n \in DOMAIN Defaults THEN Defaults[n]
    ELSE BaseDefaults[n]

\* Settings(**kwargs): the generated __init__ of the settings type
Construct(kwargs) ==
    /\ instances = <<>>
    /\ IF RequiredFields \subseteq DOMAIN kwargs
       THEN /\ instances' =
                 << [username |-> kwargs.username,
                     password |-> kwargs.password,
                     billing_account |-> Arg(kwargs, "billing_account"),
                     id |-> Arg(kwargs, "id"),
                     test |-> Arg(kwargs, "test")] >>
            /\ construct' = [status |-> "ok", given |-> DOMAIN kwargs]
       ELSE /\ instances' = instances
            /\ construct' = [status |-> "TypeError", given |-> DOMAIN kwargs]
    /\ UNCHANGED <<mutated, result>>
    /\ UNCHANGED ordersVars

\* settings.username = value
SetUsername(value) ==
    /\ instances # <<>>
    /\ instances' = <<[instances[1] EXCEPT !.username = value]>>
    /\ mutated' = TRUE
    /\ UNCHANGED <<construct, result>>
    /\ UNCHANGED ordersVars

\* settings.password = value
SetPassword(value) ==
    /\ instances # <<>>
    /\ instances' = <<[instances[1] EXCEPT !.password = value]>>
    /\ mutated' = TRUE
    /\ UNCHANGED <<construct, result>>
    /\ UNCHANGED ordersVars

Returned(r, prop, value) ==
    [req |-> r, prop |-> prop, value |-> value, mutated |-> mutated]

\* request r evaluates settings.carrier_name
ReadCarrierName(r) ==
    /\ instances # <<>>
    /\ result' = Returned(r, "carrier_name", carrier_name(instances[1]))
    /\ UNCHANGED <<instances, construct, mutated>>
    /\ UNCHANGED ordersVars

\* request r evaluates settings.server_url
ReadServerUrl(r) ==
    /\ instances # <<>>
    /\ result' = Returned(r, "server_url", server_url(instances[1]))
    /\ UNCHANGED <<instances, construct, mutated>>
    /\ UNCHANGED ordersVars

\* a getter that keeps the first token it computed
ReadAuthorizationCached(r) ==
    /\ instances # <<>>
    /\ result' = Returned(r, "authorization",
                          IF result.prop = "authorization" THEN result.value
                          ELSE authorization(instances[1]))
    /\ UNCHANGED <<instances, construct, mutated>>
    /\ UNCHANGED ordersVars

\* a getter that drops the password once the token is built
ReadAuthorizationConsuming(r) ==
    /\ instances # <<>>
    /\ result' = Returned(r, "authorization", authorization(instances[1]))
    /\ instances' = <<[instances[1] EXCEPT !.password = <<>>]>>
    /\ UNCHANGED <<construct, mutated>>
    /\ UNCHANGED ordersVars

\* request r evaluates settings.authorization
ReadAuthorization(r) ==
    /\ instances # <<>>
    /\ result' = Returned(r, "authorization", authorization(instances[1]))
    /\ UNCHANGED <<instances, construct, mutated>>
    /\ UNCHANGED ordersVars

NoResult == [req |-> "none", prop |-> "none", value |-> <<>>, mutated |-> FALSE]
NoResponse ==
    [op |-> "none", context |-> [user |-> "anonymous"], id |-> 0,
     error |-> "none", kind |-> "null", value |-> <<>>]

SettingsInit ==
    /\ instances = <<>>
    /\ construct = [status |-> "none", given |-> {}]
    /\ mutated = FALSE
    /\ result = NoResult
    /\ store = {}
    /\ access_log = <<>>
    /\ response = NoResponse

SettingsNext ==
    \/ \E given \in SUBSET FieldNames, u \in Usernames, p \in Passwords,
          b \in OptionalStrings, i \in OptionalStrings, t \in BOOLEAN :
            Construct(Kwargs(given, u, p, b, i, t))
    \/ \E value \in Usernames : SetUsername(value)
    \/ \E value \in Passwords : SetPassword(value)
    \/ \E r \in Requests : ReadCarrierName(r)
    \/ \E r \in Requests : ReadServerUrl(r)
    \/ \E r \in Requests : ReadAuthorization(r)

SettingsSpec == SettingsInit /\ [][SettingsNext]_vars

(***************************************************************************)
(* The Order extension: class Query.                                       *)
(*                                                                         *)
(* An Order row is [id, created_by].  `id` is the model's primary key (a   *)
(* Django field named id has to be), so no two rows of a store share an    *)
(* id; ids are numbered in their sort order.  A query set is the set of    *)
(* its rows.  A GraphQL value is a kind ("null", "object" or "list") with  *)
(* the sequence of rows it holds.                                          *)
(***************************************************************************)
Users == {"u1", "u2"}
Anonymous == "anonymous"
Contexts == [user : Users \cup {Anonymous}]

OrderIds == 1..MaxOrders
Rows == [id : OrderIds, created_by : Users]
Stores == {S \in SUBSET Rows : \A a, b \in S : a.id = b.id => a = b}

\* the authenticated identity the gate looks for in the calling context
is_authenticated(context) == context.user # Anonymous

\* Order.access_by(context): the rows the context's identity may see
access_by(context) == {o \in store : o.created_by = context.user}

\* QuerySet.filter(**kwargs), kwargs holding the id argument of the field
filter(qs, kwargs) == {o \in qs : o.id = kwargs.id}

\* QuerySet.first(): the row with the least primary key, or None
first(qs) ==
    IF qs = {} THEN <<>>
    ELSE <<CHOOSE o \in qs : \A p \in qs : o.id <= p.id>>

\* the orders in which the rows of an unordered query set may be delivered
Orderings(qs) ==
    {s \in [1..Cardinality(qs) -> qs] : \A i, j \in 1..Cardinality(qs) : s[i] = s[j] => i = j}

\* What one call did: the error raised ("none" when it returned), the kind of
\* the value returned, the values the call may return, and the contexts it
\* invoked Order.access_by with.
Raised(error) == [error |-> error, kind |-> "null", values |-> {<<>>}, accessed |-> <<>>]

\* utils.login_required: `wrapped` is what the decorated resolver does when it
\* is called with info; it is called only for an authenticated context
login_required(info, wrapped) ==
    IF is_authenticated(info.context) THEN wrapped
    ELSE Raised("Unauthorized")

\* Order.objects.filter(**kwargs).first(): no access scope
resolve_order_body_unscoped(info, kwargs) ==
    LET found == first(filter(store, kwargs))
    IN  [error |-> "none",
         kind |-> IF found = <<>> THEN "null" ELSE "object",
         values |-> {found},
         accessed |-> <<>>]

\* Order.access_by(info.context).first(): the filter left out
resolve_order_body_unfiltered(info, kwargs) ==
    LET found == first(access_by(info.context))
    IN  [error |-> "none",
         kind |-> IF found = <<>> THEN "null" ELSE "object",
         values |-> {found},
         accessed |-> <<info.context>>]

\* Order.access_by(info.context).get(**kwargs): raises when nothing matches
resolve_order_body_get(info, kwargs) ==
    LET found == first(filter(access_by(info.context), kwargs))
    IN  IF found = <<>>
        THEN [Raised("DoesNotExist") EXCEPT !.accessed = <<info.context>>]
        ELSE [error |-> "none", kind |-> "object", values |-> {found},
              accessed |-> <<info.context>>]

\* the body of resolve_order
resolve_order_body(info, kwargs) ==
    LET found == first(filter(access_by(info.context), kwargs))
    IN  [error |-> "none",
         kind |-> IF found = <<>> THEN "null" ELSE "object",
         values |-> {found},
         accessed |-> <<info.context>>]

\* resolve_order without its decorator
resolve_order_undecorated(info, kwargs) == resolve_order_body(info, kwargs)

\* Query.resolve_order
resolve_order(info, kwargs) ==
    login_required(info, resolve_order_body(info, kwargs))

\* Order.access_by(info.context).filter(**kwargs): as resolve_order does
resolve_orders_body_filtered(info, kwargs) ==
    [error |-> "none",
     kind |-> "list",
     values |-> Orderings(IF kwargs.id = 0 THEN access_by(info.context)
                          ELSE filter(access_by(info.context), kwargs)),
     accessed |-> <<info.context>>]

\* the body of resolve_orders; kwargs are the filter arguments of the
\* connection field, which the resolver does not read
resolve_orders_body(info, kwargs) ==
    [error |-> "none",
     kind |-> "list",
     values |-> Orderings(access_by(info.context)),
     accessed |-> <<info.context>>]

\* Query.resolve_orders
resolve_orders(info, kwargs) ==
    login_required(info, resolve_orders_body(info, kwargs))

Responded(op, context, id, out, value) ==
    [op |-> op, context |-> context, id |-> id,
     error |-> out.error, kind |-> out.kind, value |-> value]

\* a caller with `context` queries the field order(id: ...)
ResolveOrder(context, id) ==
    LET out == resolve_order([context |-> context], [id |-> id])
    IN  /\ Len(access_log) + Len(out.accessed) <= MaxCalls
        /\ \E value \in out.values :
              response' = Responded("order", context, id, out, value)
        /\ access_log' = access_log \o out.accessed
        /\ UNCHANGED store
        /\ UNCHANGED settingsVars

\* a caller with `context` queries the field orders; id = 0 stands for no
\* filter argument
ResolveOrders(context, id) ==
    LET out == resolve_orders([context |-> context], [id |-> id])
    IN  /\ Len(access_log) + Len(out.accessed) <= MaxCalls
        /\ \E value \in out.values :
              response' = Responded("orders", context, id, out, value)
        /\ access_log' = access_log \o out.accessed
        /\ UNCHANGED store
        /\ UNCHANGED settingsVars

OrdersInit ==
    /\ store \in Stores
    /\ access_log = <<>>
    /\ response = NoResponse
    /\ instances = <<>>
    /\ construct = [status |-> "none", given |-> {}]
    /\ mutated = FALSE
    /\ result = NoResult

OrdersNext ==
    \/ \E context \in Contexts, id \in OrderIds : ResolveOrder(context, id)
    \/ \E context \in Contexts, id \in {0} \cup OrderIds : ResolveOrders(context, id)

OrdersSpec == OrdersInit /\ [][OrdersNext]_vars

(***************************************************************************)
(* Reference definitions the properties are stated with: RFC 4648 Base64   *)
(* and RFC 3629 UTF-8 read backwards, from the token to the code points.   *)
(***************************************************************************)
\* the value 0..63 of a character of the Base64 alphabet: A-Z, a-z, 0-9, +, /
SextetOf(c) ==
    IF 65 <= c /\ c <= 90 THEN c - 65
    ELSE IF 97 <= c /\ c <= 122 THEN c - 71
    ELSE IF 48 <= c /\ c <= 57 THEN c + 4
    ELSE IF c = 43 THEN 62
    ELSE 63

IsBase64Char(c) ==
    \/ 65 <= c /\ c <= 90
    \/ 97 <= c /\ c <= 122
    \/ 48 <= c /\ c <= 57
    \/ c = 43
    \/ c = 47

\* the number of "=" a text ends with
RECURSIVE PadCount(_)
PadCount(text) ==
    IF text = <<>> \/ text[Len(text)] # B64Pad THEN 0
    ELSE 1 + PadCount(SubSeq(text, 1, Len(text) - 1))

\* bit j (from 0, most significant first) of the text's sextets
SextetBit(text, j) == (SextetOf(text[(j \div 6) + 1]) \div (2 ^ (5 - (j % 6)))) % 2

RECURSIVE BitsValue(_, _, _)
\* the number written by the `count` bits of the text from bit `from` on
BitsValue(text, from, count) ==
    IF count = 0 THEN 0
    ELSE 2 * BitsValue(text, from, count - 1) + SextetBit(text, from + count - 1)

\* the bytes a Base64 text stands for: the bits of the sextets before the
\* padding, eight at a time
Base64Bytes(text) ==
    [k \in 1..((6 * (Len(text) - PadCount(text))) \div 8) |->
        BitsValue(text, 8 * (k - 1), 8)]

\* a text is canonical Base64: whole groups of four characters, all of the
\* alphabet but for one or two "=" that fill the last group, and no stray
\* bits after the last byte
IsCanonicalBase64(text) ==
    LET nchars == Len(text) - PadCount(text)
    IN  /\ Len(text) % 4 = 0
        /\ PadCount(text) <= 2
        /\ \A i \in 1..nchars : IsBase64Char(text[i])
        /\ \A j \in (8 * ((6 * nchars) \div 8))..(6 * nchars - 1) :
              SextetBit(text, j) = 0

RECURSIVE Utf8CodePoints(_)
\* the code points a UTF-8 byte string stands for
Utf8CodePoints(bs) ==
    IF bs = <<>> THEN <<>>
    ELSE LET b == bs[1]
             n == IF b < 128 THEN 1 ELSE IF b < 224 THEN 2 ELSE IF b < 240 THEN 3 ELSE 4
             lead == IF n = 1 THEN b ELSE IF n = 2 THEN b - 192
                     ELSE IF n = 3 THEN b - 224 ELSE b - 240
             RECURSIVE Continue(_, _)
             Continue(acc, i) ==
                 IF i > n THEN acc ELSE Continue(64 * acc + (bs[i] - 128), i + 1)
         IN  IF Len(bs) < n THEN <<-1>>
             ELSE <<Continue(lead, 2)>> \o Utf8CodePoints(SubSeq(bs, n + 1, Len(bs)))

\* "YWxpY2U6c2VjcmV0"
AliceSecretToken == <<89, 87, 120, 112, 89, 50, 85, 54, 99, 50, 86, 106, 99, 109, 86, 48>>

\* a step in which a request read a property
IsRead == result' # result
IsReadOf(prop) == result' # result /\ result'.prop = prop

(***************************************************************************)
(* The Order extension (checked under OrdersSpec).                         *)
(***************************************************************************)
\* C1: a resolver call runs its data lookup exactly when the calling context
\* is authenticated: an unauthenticated call fails with Unauthorized and
\* Order.access_by is not invoked; an authenticated call returns and invokes
\* Order.access_by once, with the context of the call.
C1_LookupIffAuthenticated ==
    [][ IF is_authenticated(response'.context)
        THEN /\ response'.error = "none"
             /\ access_log' = Append(access_log, response'.context)
        ELSE /\ response'.error = "Unauthorized"
             /\ response'.kind = "null"
             /\ access_log' = access_log ]_vars

\* an unauthenticated call was refused after an authenticated one was served
C1_Witness ==
    /\ response.op \in {"order", "orders"}
    /\ ~is_authenticated(response.context)
    /\ response.error = "Unauthorized"
    /\ store # {}
    /\ Len(access_log) = 1

\* C2: every record order or orders returns is one of Order.access_by of the
\* calling context, and order called with the id of a record outside that
\* scope returns an absent result.
C2_ResultsAreScoped ==
    (response.op \in {"order", "orders"} /\ response.error = "none") =>
        /\ \A i \in 1..Len(response.value) :
              response.value[i] \in access_by(response.context)
        /\ (/\ response.op = "order"
            /\ \E o \in store :
                  o.id = response.id /\ o \notin access_by(response.context))
           => (response.kind = "null" /\ response.value = <<>>)

\* order was asked for another user's record and answered null
C2_Witness ==
    /\ response.op = "order"
    /\ is_authenticated(response.context)
    /\ \E o \in store : o.id = response.id /\ o.created_by # response.context.user
    /\ access_by(response.context) # {}
    /\ response.error = "none"
    /\ response.kind = "null"

\* C3: order with an authenticated context and an id matching exactly one
\* visible record returns that record.
C3_OrderReturnsTheMatch ==
    (/\ response.op = "order"
     /\ is_authenticated(response.context)
     /\ Cardinality({o \in access_by(response.context) : o.id = response.id}) = 1)
    => /\ response.error = "none"
       /\ response.kind = "object"
       /\ \E o \in access_by(response.context) :
             o.id = response.id /\ response.value = <<o>>

\* the record returned is not the first of the caller's records
C3_Witness ==
    /\ response.op = "order"
    /\ is_authenticated(response.context)
    /\ response.kind = "object"
    /\ Len(response.value) = 1
    /\ response.value[1].id = response.id
    /\ \E o \in access_by(response.context) : o.id < response.id

\* C4: order with an authenticated context and an id matching no visible
\* record returns null and raises nothing.
C4_NoMatchIsNull ==
    (/\ response.op = "order"
     /\ is_authenticated(response.context)
     /\ ~ \E o \in access_by(response.context) : o.id = response.id)
    => /\ response.error = "none"
       /\ response.kind = "null"
       /\ response.value = <<>>

\* the caller has records, none with the id asked for
C4_Witness ==
    /\ response.op = "order"
    /\ is_authenticated(response.context)
    /\ access_by(response.context) # {}
    /\ \A o \in store : o.id # response.id
    /\ response.error = "none"
    /\ response.kind = "null"

C6_ServerUrlFollowsTest ==
    result.prop = "server_url" =>
        /\ instances # <<>>
        /\ instances[1].test => result.value = SandboxUrl
        /\ ~instances[1].test => result.value = ProductionUrl
        /\ Len(SandboxUrl) = 31 /\ Len(ProductionUrl) = 28
        /\ SandboxUrl = SubSeq(ProductionUrl, 1, 8) \o <<99, 116, 46>>
                            \o SubSeq(ProductionUrl, 9, 28)

\* the sandbox URL was read from an instance whose credentials were changed
C6_Witness ==
    /\ result.prop = "server_url"
    /\ result.mutated
    /\ instances[1].test
    /\ instances[1].billing_account # None
    /\ result.value = SandboxUrl

\* C7: the token read from authorization is the standard Base64 text of the
\* UTF-8 bytes of "<username>:<password>": canonical Base64 that decodes to
\* those code points; "alice" and "secret" give "YWxpY2U6c2VjcmV0".
C7_AuthorizationIsBase64OfPair ==
    [][ IsReadOf("authorization") =>
          LET self == instances'[1]
              token == result'.value
          IN  /\ IsCanonicalBase64(token)
              /\ Utf8CodePoints(Base64Bytes(token))
                    = self.username \o <<58>> \o self.password
              /\ (self.username = Alice /\ self.password = Secret)
                    => token = AliceSecretToken ]_vars

\* the token of alice and secret was read
C7_Witness ==
    /\ result.prop = "authorization"
    /\ instances # <<>>
    /\ instances[1].username = Alice
    /\ instances[1].password = Secret
    /\ result.value = AliceSecretToken

\* C8: a read of authorization returns the token of the username and the
\* password the instance holds at that read, whatever was assigned or read
\* before: the token is the one computed from the current fields, and it
\* decodes to the current "<username>:<password>".
C8_AuthorizationNeverStale ==
    [][ IsReadOf("authorization") =>
          /\ result'.value = authorization(instances'[1])
          /\ Utf8CodePoints(Base64Bytes(result'.value))
                = format_pair(instances'[1].username, instances'[1].password) ]_vars

\* authorization was read after an assignment and gave the token of the
\* pair assigned
C8_Witness ==
    /\ result.prop = "authorization"
    /\ result.mutated
    /\ instances[1].username = <<233>>
    /\ instances[1].password = <<8364>>
    /\ Utf8CodePoints(Base64Bytes(result.value)) = <<233, 58, 8364>>

\* C9: a constructor call without username or without password fails and
\* produces no instance; a call that gives both succeeds, and billing_account
\* and id are None when they were not given.
C9_RequiredAndOptionalFields ==
    construct.status # "none" =>
        IF {"username", "password"} \subseteq construct.given
        THEN /\ construct.status = "ok"
             /\ Len(instances) = 1
             /\ "billing_account" \notin construct.given
                   => instances[1].billing_account = None
             /\ "id" \notin construct.given => instances[1].id = None
        ELSE /\ construct.status = "TypeError"
             /\ instances = <<>>

\* a call that gave only the password failed
C9_Witness ==
    /\ construct.given = {"password"}
    /\ construct.status = "TypeError"
    /\ instances = <<>>

\* C10: reading carrier_name, server_url or authorization changes no field
\* of the instance, and the value read is the property of those fields
\* whichever request reads it and whatever was read before.
C10_ReadsChangeNothing ==
    [][ IsRead =>
          /\ instances' = instances
          /\ construct' = construct
          /\ mutated' = mutated
          /\ result'.value =
                CASE result'.prop = "carrier_name" -> carrier_name(instances[1])
                  [] result'.prop = "server_url" -> server_url(instances[1])
                  [] result'.prop = "authorization" -> authorization(instances[1]) ]_vars

\* the second request read the token of an instance with every field set
C10_Witness ==
    /\ result.req = "r2"
    /\ result.prop = "authorization"
    /\ instances # <<>>
    /\ result.value = authorization(instances[1])
    /\ instances[1].billing_account # None
    /\ instances[1].id # None

====
